---- MODULE Spec2Model ----
(***************************************************************************)
(* Scene orchestration engine of src/scene/scene.py: scene-object          *)
(* bookkeeping, the time-stepped playback loop, the range-overwrite path   *)
(* and the bulk operations on the list of frames.                          *)
(*                                                                         *)
(* Times (run times, frame_duration, t0, t1) are exact rationals on a      *)
(* common tick grid, written as integers; a progress value t/R is kept as  *)
(* the pair num/den.  Every method of Scene is an operator from a scene    *)
(* record to a scene record; every action applies one whole method call.   *)
(***************************************************************************)
EXTENDS Integers, Sequences, FiniteSets, TLC

\* ------------------------------------------------------------------ bounds
MaxCalls == 2           \* method calls made on one scene
MaxArgs == 2            \* length of an argument list (*mobjects, *animations)
MaxRunTime == 2         \* largest run_time, in ticks
MaxFrameDuration == 2   \* largest frame_duration, in ticks
MaxTime == 2            \* largest |t0| and |t1|, in ticks
MaxDither == 4          \* largest dither duration, in ticks
MaxRepeat == 2          \* largest argument of repeat_frames
MaxTicksPerSecond == 3  \* finest tick grid of an exported scene, in ticks per second
MaxExportFrames == 3    \* longest buffer that is exported
FrameChunks == 2        \* pieces in which the bytes of one frame enter a pipe
PipeCapacity == 1       \* pieces a pipe holds before a write to it blocks

\* ------------------------------------------------------- the mobject world
\* Three drawables; mobject 1 is a composite whose only submobject is 3.
Objs == {1, 2, 3}
Submobjects(o) == IF o = 1 THEN <<3>> ELSE <<>>
\* The anonymous Mobject(*self.mobjects) of separate_moving_and_static_mobjects.
Bundle == 0
\* A value that is not a Mobject, as an argument of add/remove.
NonMobject == 9
Values == Objs \cup {NonMobject}

\* ------------------------------------------------------------ list helpers
InSeq(x, s) == \E i \in 1..Len(s) : s[i] = x
Range(s) == {s[i] : i \in 1..Len(s)}

RECURSIVE remove_list_redundancies(_)
remove_list_redundancies(s) ==
    IF s = <<>> THEN <<>>
    ELSE LET rest == remove_list_redundancies(Tail(s))
             NotHead(x) == x # Head(s)
         IN  <<Head(s)>> \o SelectSeq(rest, NotHead)

RECURSIVE Chain(_)
Chain(ss) == IF ss = <<>> THEN <<>> ELSE Head(ss) \o Chain(Tail(ss))

SeqsUpTo(S, n) == UNION {[1..k -> S] : k \in 0..n}

\* ---------------------------------------------------- Mobject (helpers)
\* submobject_family: the mobject itself, then the families of its
\* submobjects, pre-order, without repetitions.
RECURSIVE submobject_family(_)
submobject_family(o) ==
    LET subs == Submobjects(o)
    IN  remove_list_redundancies(
            <<o>> \o Chain([i \in 1..Len(subs) |-> submobject_family(subs[i])]))

\* Family of the bundle Mobject(*ms): the bundle, then the families of ms.
bundle_family(ms) ==
    remove_list_redundancies(
        <<Bundle>> \o Chain([i \in 1..Len(ms) |-> submobject_family(ms[i])]))

all_elements_are_instances(ms) == \A i \in 1..Len(ms) : ms[i] \in Objs

\* ------------------------------------------------------------- the camera
\* A frame is a raster of one pixel per mobject plus pixel 0, which every
\* mobject covers (so paint order is visible).  0 is the blank value.
Pixels == {0} \cup Objs
BlankFrame == [p \in Pixels |-> 0]

\* Painting one mobject's own points; the bundle has none.
Paint(img, o, app) ==
    IF o \in Objs THEN [img EXCEPT ![o] = app[o], ![0] = o] ELSE img

RECURSIVE PaintAll(_, _, _)
PaintAll(img, ms, app) ==
    IF ms = <<>> THEN img
    ELSE PaintAll(Paint(img, Head(ms), app), Tail(ms), app)

extract_mobject_family_members(ms) ==
    remove_list_redundancies(
        Chain([i \in 1..Len(ms) |-> submobject_family(ms[i])]))

\* kw is <<>> (include_submobjects left at the camera's default, True) or
\* <<b>> (include_submobjects = b).
capture_mobjects(img, ms, kw, app) ==
    LET include == IF kw = <<>> THEN TRUE ELSE kw[1]
    IN  PaintAll(img, IF include THEN extract_mobject_family_members(ms) ELSE ms, app)

\* ------------------------------------------------------------ call events
Ev(kind) ==
    [ev |-> kind, anim |-> 0, num |-> 0, den |-> 1, objs |-> <<>>,
     kw |-> <<>>, img |-> BlankFrame, idx |-> 0]
EvReset == Ev("reset")
EvSetImage(f) == [Ev("set_image") EXCEPT !.img = f]
EvCapture(ms, kw) == [Ev("capture") EXCEPT !.objs = ms, !.kw = kw]
EvUpdate(j, n, d) == [Ev("update") EXCEPT !.anim = j, !.num = n, !.den = d]
EvRead(i) == [Ev("read") EXCEPT !.idx = i]
EvWrite(i, f) == [Ev("write") EXCEPT !.idx = i, !.img = f]
EvAppend(f) == [Ev("append") EXCEPT !.img = f]
EvCleanUp(j) == [Ev("clean_up") EXCEPT !.anim = j]
EvRaise(kind) == [Ev("raise") EXCEPT !.objs = <<kind>>]

\* ------------------------------------------------------------------ state
VARIABLES
    frame_duration,   \* CONFIG["frame_duration"], in ticks
    mobjects,         \* self.mobjects
    frames,           \* self.frames
    num_animations,   \* self.num_animations
    image,            \* the camera's current image
    appearance,       \* drawable state of every mobject
    calls,            \* number of method calls made so far
    op,               \* the last method called
    args,             \* its arguments
    pre,              \* the scene as it was when the call began
    trace,            \* what the call did to the camera and the animations
    raised,           \* the exception that left the call, "" for none
    export            \* the export under way: the writer, the pipes, the encoders

vars == <<frame_duration, mobjects, frames, num_animations, image, appearance,
          calls, op, args, pre, trace, raised, export>>

\* The scene as one record, the form every method takes and returns.
Scene ==
    [mobjects |-> mobjects, frames |-> frames, num_animations |-> num_animations,
     image |-> image, appearance |-> appearance, trace |-> <<>>, raised |-> ""]

Raise(s, kind) == [s EXCEPT !.raised = kind, !.trace = @ \o <<EvRaise(kind)>>]
Log(s, e) == [s EXCEPT !.trace = Append(@, e)]

NoArgs == [objs |-> <<>>, anims |-> <<>>, kw |-> <<>>, t0 |-> 0, t1 |-> 0, n |-> 0]

\* ------------------------------------------------- only these touch the camera
get_frame(s) == s.image

\* update_frame with the background dropped: the camera is reset every time.
update_frame_ignoring_background(s, ms, background, kw) ==
    LET s1 == Log(s, EvReset)
        s2 == Log(s1, EvCapture(ms, kw))
    IN  [s2 EXCEPT !.image = capture_mobjects(BlankFrame, ms, kw, s.appearance)]

\* background is <<>> (None) or <<frame>>.
update_frame(s, ms, background, kw) ==
    LET start == IF background # <<>> THEN background[1] ELSE BlankFrame
        s1 == Log(s, IF background # <<>> THEN EvSetImage(background[1]) ELSE EvReset)
        s2 == Log(s1, EvCapture(ms, kw))
    IN  [s2 EXCEPT !.image = capture_mobjects(start, ms, kw, s.appearance)]

\* ------------------------------------------------------------ bookkeeping
\* add that appends the Mobjects among its arguments before it raises.
add_partial(s, ms) ==
    LET NotAmong(m) == ~InSeq(m, ms)
        IsMobject(m) == m \in Objs
        old_mobjects == SelectSeq(s.mobjects, NotAmong)
        s1 == [s EXCEPT !.mobjects = old_mobjects \o SelectSeq(ms, IsMobject)]
    IN  IF ~all_elements_are_instances(ms) THEN Raise(s1, "Exception") ELSE s1

add(s, ms) ==
    IF ~all_elements_are_instances(ms) THEN Raise(s, "Exception")
    ELSE LET NotAmong(m) == ~InSeq(m, ms)
             old_mobjects == SelectSeq(s.mobjects, NotAmong)
         IN  [s EXCEPT !.mobjects = old_mobjects \o ms]

remove(s, ms) ==
    IF ~all_elements_are_instances(ms) THEN Raise(s, "Exception")
    ELSE LET Present(m) == InSeq(m, s.mobjects)
             present == SelectSeq(ms, Present)
             NotAmong(m) == ~InSeq(m, present)
         IN  IF Len(present) = 0 THEN s
             ELSE [s EXCEPT !.mobjects = SelectSeq(s.mobjects, NotAmong)]

bring_to_front(s, m) == add(s, <<m>>)

bring_to_back(s, m) ==
    LET s1 == remove(s, <<m>>)
    IN  IF s1.raised # "" THEN s1
        ELSE [s1 EXCEPT !.mobjects = <<m>> \o s1.mobjects]

clear(s) == [s EXCEPT !.mobjects = <<>>]

\* ------------------------------------------------------------- animations
\* An animation is the record [mobject, run_time]; update(alpha) redraws the
\* family of its mobject in the shade that belongs to alpha = num/den.
Shade(num, den) == 1 + (2 * num) \div den

animation_update(s, j, anim, num, den) ==
    LET family == Range(submobject_family(anim.mobject))
        s1 == Log(s, EvUpdate(j, num, den))
    IN  [s1 EXCEPT !.appearance =
            [o \in Objs |-> IF o \in family THEN Shade(num, den) ELSE @[o]]]

set_run_time(anim, run_time) == [anim EXCEPT !.run_time = run_time]

clean_up(s, j) == Log(s, EvCleanUp(j))

RECURSIVE clean_up_all(_, _, _)
clean_up_all(s, anims, j) ==
    IF j > Len(anims) THEN s ELSE clean_up_all(clean_up(s, j), anims, j + 1)

\* ---------------------------------------------------------------- playback
\* arange with the stop value included: floor((stop - start) / step) + 1 values.
arange_inclusive(start, stop, step) ==
    LET n == IF stop < start THEN 0 ELSE (stop - start) \div step + 1
    IN  [i \in 1..n |-> start + (i - 1) * step]

\* np.arange(start, stop, step): ceil((stop - start) / step) values
\* start, start + step, ...
arange(start, stop, step) ==
    LET n == IF stop <= start THEN 0 ELSE (stop - start + step - 1) \div step
    IN  [i \in 1..n |-> start + (i - 1) * step]

\* Alignment that leaves the declared run times alone when no keyword is given.
align_run_times_keyword_only(anims, kw) ==
    [j \in 1..Len(anims) |->
        IF kw # <<>> THEN set_run_time(anims[j], kw[1]) ELSE anims[j]]

\* kw is <<>> (no run_time keyword) or <<run_time>>.
align_run_times(anims, kw) ==
    LET run_time == IF kw # <<>> THEN kw[1] ELSE anims[1].run_time
    IN  [j \in 1..Len(anims) |-> set_run_time(anims[j], run_time)]

\* The partition with the targets alone taken as moving, their families left out.
separate_targets_only(s, anims) ==
    LET moving_mobjects == [j \in 1..Len(anims) |-> anims[j].mobject]
        NotMoving(m) == ~InSeq(m, moving_mobjects)
    IN  [moving |-> moving_mobjects,
         static |-> SelectSeq(bundle_family(s.mobjects), NotMoving)]

separate_moving_and_static_mobjects(s, anims) ==
    LET moving_mobjects ==
            Chain([j \in 1..Len(anims) |-> submobject_family(anims[j].mobject)])
        NotMoving(m) == ~InSeq(m, moving_mobjects)
    IN  [moving |-> moving_mobjects,
         static |-> SelectSeq(bundle_family(s.mobjects), NotMoving)]

get_time_progression(anims, D) == arange(0, anims[1].run_time, D)

\* One pass of the inner loop "for animation in animations" of play.
RECURSIVE play_update_all(_, _, _, _)
play_update_all(s, anims, j, t) ==
    IF j > Len(anims) THEN s
    ELSE play_update_all(
            animation_update(s, j, anims[j], t, anims[j].run_time), anims, j + 1, t)

RECURSIVE play_loop(_, _, _, _, _)
play_loop(s, anims, moving_mobjects, static_image, times) ==
    IF times = <<>> THEN s
    ELSE LET s1 == play_update_all(s, anims, 1, Head(times))
             s2 == update_frame(s1, moving_mobjects, <<static_image>>, <<>>)
             s3 == Log([s2 EXCEPT !.frames = Append(@, get_frame(s2))],
                       EvAppend(get_frame(s2)))
         IN  play_loop(s3, anims, moving_mobjects, static_image, Tail(times))

play(s, animations, kw, D) ==
    IF Len(animations) = 0 THEN Raise(s, "Warning")
    ELSE LET s1 == [s EXCEPT !.num_animations = @ + 1]
             s2 == add(s1, [j \in 1..Len(animations) |-> animations[j].mobject])
             anims == align_run_times(animations, kw)
             sep == separate_moving_and_static_mobjects(s2, anims)
             s3 == update_frame(s2, sep.static, <<>>, <<FALSE>>)
             static_image == get_frame(s3)
             s4 == play_loop(s3, anims, sep.moving, static_image,
                             get_time_progression(anims, D))
         IN  IF s2.raised # "" THEN s2 ELSE clean_up_all(s4, anims, 1)

\* dither that repeats the last stored frame, when there is one, instead of
\* the frame it has just rasterized.
dither_last_frame(s, duration, D) ==
    LET s1 == update_frame(s, s.mobjects, <<>>, <<>>)
        n == IF duration < 0 THEN 0 ELSE duration \div D
        held == IF s.frames # <<>> THEN s.frames[Len(s.frames)] ELSE get_frame(s1)
    IN  [s1 EXCEPT !.frames = @ \o [i \in 1..n |-> held]]

dither(s, duration, D) ==
    LET s1 == update_frame(s, s.mobjects, <<>>, <<>>)
        n == IF duration < 0 THEN 0 ELSE duration \div D
    IN  [s1 EXCEPT !.frames = @ \o [i \in 1..n |-> get_frame(s1)]]

\* A negative time taken as its absolute value instead of wrapped around.
wrap_negative_abs(t, existing_scene_time) == (-t) % existing_scene_time

\* "So negative values may be used": float(t) % existing_scene_time.
wrap_negative(t, existing_scene_time) == t % existing_scene_time

\* The frame index counted from one.
frame_index_one_based(t, D) == t \div D + 1

\* index = int(t / self.frame_duration)
frame_index(t, D) == t \div D

RECURSIVE range_update_all(_, _, _, _, _)
range_update_all(s, anims, j, num, den) ==
    IF j > Len(anims) THEN s
    ELSE range_update_all(animation_update(s, j, anims[j], num, den),
                          anims, j + 1, num, den)

\* The loop of play_over_time_range; reading self.frames[index] past the end
\* of the list raises IndexError and leaves the method.
RECURSIVE range_loop(_, _, _, _, _, _, _)
range_loop(s, anims, moving_mobjects, t0, t1, times, D) ==
    IF times = <<>> THEN s
    ELSE LET t == Head(times)
             s1 == range_update_all(s, anims, 1, t - t0, t1 - t0)
             index == frame_index(t, D)
             s2 == Log(s1, EvRead(index))
         IN  IF index >= Len(s2.frames) THEN Raise(s2, "IndexError")
             ELSE LET s3 == update_frame(s2, moving_mobjects,
                                         <<s2.frames[index + 1]>>, <<>>)
                      s4 == Log([s3 EXCEPT !.frames[index + 1] = get_frame(s3)],
                                EvWrite(index, get_frame(s3)))
                  IN  range_loop(s4, anims, moving_mobjects, t0, t1, Tail(times), D)

Abs(x) == IF x < 0 THEN -x ELSE x
Max(x, y) == IF x < y THEN y ELSE x
Min(x, y) == IF x < y THEN x ELSE y

play_over_time_range(s, t0, t1, animations, D) ==
    LET needed_scene_time == Max(Abs(t0), Abs(t1))
        short == Len(s.frames) * D < needed_scene_time
        s1 == IF short THEN dither(s, needed_scene_time - Len(s.frames) * D, D) ELSE s
        existing_scene_time == IF short THEN needed_scene_time ELSE Len(s.frames) * D
        w0 == IF t0 < 0 THEN wrap_negative(t0, existing_scene_time) ELSE t0
        w1 == IF t1 < 0 THEN wrap_negative(t1, existing_scene_time) ELSE t1
        lo == Min(w0, w1)
        hi == Max(w0, w1)
        moving_mobjects == [j \in 1..Len(animations) |-> animations[j].mobject]
        s2 == range_loop(s1, animations, moving_mobjects, lo, hi, arange(lo, hi, D), D)
    IN  IF s2.raised # "" THEN s2 ELSE clean_up_all(s2, animations, 1)

\* --------------------------------------------------------- bulk operations
\* repeat_frames that appends num copies to the buffer it has.
repeat_frames_extend(s, num) ==
    [s EXCEPT !.frames = @ \o Chain([i \in 1..num |-> s.frames])]

repeat_frames(s, num) ==
    [s EXCEPT !.frames = Chain([i \in 1..num |-> s.frames])]

reverse_frames(s) ==
    [s EXCEPT !.frames = [i \in 1..Len(s.frames) |-> s.frames[Len(s.frames) + 1 - i]]]

\* invert_colors with the 8-bit negation 256 - value (mod 256) for 255 - value.
invert_colors_wrapping(s) ==
    [s EXCEPT !.frames = [i \in 1..Len(s.frames) |->
                             [p \in Pixels |-> (256 - s.frames[i][p]) % 256]]]

invert_colors(s) ==
    [s EXCEPT !.frames = [i \in 1..Len(s.frames) |->
                             [p \in Pixels |-> 255 - s.frames[i][p]]]]

\* ---------------------------------------------------------------- actions
CommitScene(name, a, s) ==
    /\ calls < MaxCalls
    /\ calls' = calls + 1
    /\ op' = name
    /\ args' = a
    /\ pre' = [mobjects |-> mobjects, frames |-> frames,
               image |-> image, appearance |-> appearance]
    /\ mobjects' = s.mobjects
    /\ frames' = s.frames
    /\ num_animations' = s.num_animations
    /\ image' = s.image
    /\ appearance' = s.appearance
    /\ trace' = s.trace
    /\ raised' = s.raised
    /\ UNCHANGED frame_duration

\* No export is under way.  tps is the number of ticks in a second.
NoExport ==
    [pc |-> "idle", kind |-> "none", tps |-> 1, fps |-> 0, delay |-> 0,
     next |-> 1, part |-> 1, stdin_open |-> FALSE,
     pipe1 |-> <<>>, pipe2 |-> <<>>,
     ffmpeg |-> "none", ffmpeg_in |-> <<>>, ffmpeg_out |-> <<>>,
     imagemagick |-> "none", imagemagick_in |-> <<>>]

Commit(name, a, s) == CommitScene(name, a, s) /\ UNCHANGED export

Add ==
    \E ms \in SeqsUpTo(Values, MaxArgs) :
        Commit("add", [NoArgs EXCEPT !.objs = ms], add(Scene, ms))

Remove ==
    \E ms \in SeqsUpTo(Values, MaxArgs) :
        Commit("remove", [NoArgs EXCEPT !.objs = ms], remove(Scene, ms))

BringToFront ==
    \E m \in Values :
        Commit("bring_to_front", [NoArgs EXCEPT !.objs = <<m>>], bring_to_front(Scene, m))

BringToBack ==
    \E m \in Values :
        Commit("bring_to_back", [NoArgs EXCEPT !.objs = <<m>>], bring_to_back(Scene, m))

Clear == Commit("clear", NoArgs, clear(Scene))

Animations == [mobject : Objs, run_time : 1..MaxRunTime]
Keywords == {<<>>} \cup {<<r>> : r \in 0..MaxRunTime}

Play ==
    \E anims \in SeqsUpTo(Animations, MaxArgs), kw \in Keywords :
        Commit("play", [NoArgs EXCEPT !.anims = anims, !.kw = kw],
               play(Scene, anims, kw, frame_duration))

\* run_time plays no part in play_over_time_range: its animations are drawn
\* with the run_time 1.
PlayOverTimeRange ==
    \E t0 \in -MaxTime..MaxTime, t1 \in -MaxTime..MaxTime,
       anims \in SeqsUpTo([mobject : Objs, run_time : {1}], MaxArgs) :
        Commit("play_over_time_range",
               [NoArgs EXCEPT !.anims = anims, !.t0 = t0, !.t1 = t1],
               play_over_time_range(Scene, t0, t1, anims, frame_duration))

Dither ==
    \E duration \in 0..MaxDither :
        Commit("dither", [NoArgs EXCEPT !.n = duration],
               dither(Scene, duration, frame_duration))

RepeatFrames ==
    \E num \in 0..MaxRepeat :
        Commit("repeat_frames", [NoArgs EXCEPT !.n = num], repeat_frames(Scene, num))

ReverseFrames == Commit("reverse_frames", NoArgs, reverse_frames(Scene))

InvertColors == Commit("invert_colors", NoArgs, invert_colors(Scene))

Init ==
    /\ frame_duration \in 1..MaxFrameDuration
    /\ mobjects = <<>>
    /\ frames = <<>>
    /\ num_animations = 0
    /\ image = BlankFrame
    /\ appearance = [o \in Objs |-> 1]
    /\ calls = 0
    /\ op = "init"
    /\ args = NoArgs
    /\ pre = [mobjects |-> <<>>, frames |-> <<>>,
              image |-> BlankFrame, appearance |-> [o \in Objs |-> 1]]
    /\ trace = <<>>
    /\ raised = ""
    /\ export = NoExport

Next ==
    \/ Add
    \/ Remove
    \/ BringToFront
    \/ BringToBack
    \/ Clear
    \/ Play
    \/ PlayOverTimeRange
    \/ Dither
    \/ RepeatFrames
    \/ ReverseFrames
    \/ InvertColors

Spec == Init /\ [][Next]_vars

\* ------------------------------------------------------------------ export
\* write_to_movie and write_to_gif hand the frame buffer to encoder
\* processes through pipes.  The scene is the writer; ffmpeg reads pipe1 and,
\* for a gif, feeds pipe2, which imagemagick reads.  A frame's bytes enter
\* pipe1 in FrameChunks pieces and a pipe holds PipeCapacity pieces, so a
\* write blocks until the reader has made room.
EvShow(f) == [Ev("show") EXCEPT !.img = f]
EvSave(f) == [Ev("save") EXCEPT !.img = f]

\* show_frame without the update_frame before it: the stale camera image.
show_frame_stale(s) == Log(s, EvShow(get_frame(s)))

show_frame(s) ==
    LET s1 == update_frame(s, s.mobjects, <<>>, <<>>)
    IN  Log(s1, EvShow(get_frame(s1)))

save_image(s) == Log(s, EvSave(get_frame(s)))

\* int(1/self.frame_duration), with frame_duration = fd/tps seconds.
frames_per_second(fd, tps) == tps \div fd

\* delay_value = 100 / fps, Python 2 integer division.
delay_value(fps) == 100 \div fps

\* frame.tostring(): the bytes of a frame, piece by piece.
tostring(f) == [c \in 1..FrameChunks |-> [frame |-> f, part |-> c]]

\* The byte stream that carries the whole buffer in order.
ByteStream(fs) == Chain([i \in 1..Len(fs) |-> tostring(fs[i])])

MethodName(kind) == IF kind = "movie" THEN "write_to_movie" ELSE "write_to_gif"

\* The call up to the first write: the empty-buffer fallback, the frame rate,
\* the delay, the launch of the encoder processes.
WriteTo(kind) ==
    /\ export.pc = "idle"
    /\ LET empty == Len(frames) = 0
           fps == frames_per_second(frame_duration, export.tps)
           divides_by_zero == ~empty /\ kind = "gif" /\ fps = 0
           s == IF empty THEN save_image(show_frame(Scene))
                ELSE IF divides_by_zero THEN Raise(Scene, "ZeroDivisionError")
                ELSE Scene
       IN  /\ CommitScene(MethodName(kind), NoArgs, s)
           /\ export' =
                IF empty
                THEN [export EXCEPT !.pc = "done", !.kind = kind]
                ELSE IF divides_by_zero
                THEN [export EXCEPT !.pc = "done", !.kind = kind, !.fps = fps]
                ELSE [export EXCEPT
                        !.pc = "writing", !.kind = kind, !.fps = fps,
                        !.delay = IF kind = "gif" THEN delay_value(fps) ELSE 0,
                        !.ffmpeg = "running",
                        !.imagemagick = IF kind = "gif" THEN "running" ELSE "none",
                        !.stdin_open = TRUE, !.next = 1, !.part = 1]

WriteToMovie == WriteTo("movie")
WriteToGif == WriteTo("gif")

Scenery ==
    <<frame_duration, mobjects, frames, num_animations, image, appearance,
      calls, op, args, pre, trace, raised>>

FramesLeft == export.pc = "writing" /\ export.next <= Len(frames)
PipeFull(p) == Len(p) >= PipeCapacity

\* process.stdin.write(frame.tostring()): one piece enters pipe1 when there
\* is room for it; the loop moves on when the frame's last piece is in.
WriteFrame ==
    /\ FramesLeft
    /\ ~PipeFull(export.pipe1)
    /\ LET piece == tostring(frames[export.next])[export.part]
           last == export.part = FrameChunks
       IN  export' = [export EXCEPT
                        !.pipe1 = Append(@, piece),
                        !.part = IF last THEN 1 ELSE @ + 1,
                        !.next = IF last THEN @ + 1 ELSE @]
    /\ UNCHANGED Scenery

\* The loop's end without the close: the writer goes on to wait while
\* ffmpeg's stdin stays open.
CloseStdinForgotten ==
    /\ export.pc = "writing"
    /\ export.next > Len(frames)
    /\ export' = [export EXCEPT !.pc = "waiting"]
    /\ UNCHANGED Scenery

\* process.stdin.close(), after the loop.
CloseStdin ==
    /\ export.pc = "writing"
    /\ export.next > Len(frames)
    /\ export' = [export EXCEPT !.stdin_open = FALSE, !.pc = "waiting"]
    /\ UNCHANGED Scenery

LastProcess == IF export.kind = "gif" THEN export.imagemagick ELSE export.ffmpeg

\* process.wait() / imagemagick_process.wait(): returns when the last
\* process of the chain has exited.
Wait ==
    /\ export.pc = "waiting"
    /\ LastProcess = "exited"
    /\ export' = [export EXCEPT !.pc = "done"]
    /\ UNCHANGED Scenery

\* ffmpeg holds at most one finished image that it has not yet put out.
FfmpegHolds == export.kind = "gif" /\ export.ffmpeg_out # <<>>

\* ffmpeg takes a piece from its stdin; for a gif, a frame's last piece
\* completes an image for stdout.
FfmpegRead ==
    /\ export.ffmpeg = "running"
    /\ export.pipe1 # <<>>
    /\ ~FfmpegHolds
    /\ LET piece == Head(export.pipe1)
           whole == export.kind = "gif" /\ piece.part = FrameChunks
       IN  export' = [export EXCEPT
                        !.pipe1 = Tail(@),
                        !.ffmpeg_in = Append(@, piece),
                        !.ffmpeg_out = IF whole THEN <<piece.frame>> ELSE @]
    /\ UNCHANGED Scenery

\* ffmpeg writes the finished image to its stdout, pipe2, when there is room.
FfmpegWrite ==
    /\ export.ffmpeg = "running"
    /\ FfmpegHolds
    /\ ~PipeFull(export.pipe2)
    /\ export' = [export EXCEPT
                    !.pipe2 = Append(@, export.ffmpeg_out[1]),
                    !.ffmpeg_out = <<>>]
    /\ UNCHANGED Scenery

\* ffmpeg reaches the end of its stdin, finishes its output and exits.
FfmpegExit ==
    /\ export.ffmpeg = "running"
    /\ export.pipe1 = <<>>
    /\ ~export.stdin_open
    /\ ~FfmpegHolds
    /\ export' = [export EXCEPT !.ffmpeg = "exited"]
    /\ UNCHANGED Scenery

\* imagemagick takes an image from its stdin.
MagickRead ==
    /\ export.imagemagick = "running"
    /\ export.pipe2 # <<>>
    /\ export' = [export EXCEPT
                    !.pipe2 = Tail(@),
                    !.imagemagick_in = Append(@, Head(export.pipe2))]
    /\ UNCHANGED Scenery

\* imagemagick reaches the end of its stdin, writes the file and exits.
MagickExit ==
    /\ export.imagemagick = "running"
    /\ export.pipe2 = <<>>
    /\ export.ffmpeg = "exited"
    /\ export' = [export EXCEPT !.imagemagick = "exited"]
    /\ UNCHANGED Scenery

\* The frames a constructed scene can hold, and the scenes that are exported.
ExportFrames ==
    {BlankFrame, capture_mobjects(BlankFrame, <<2>>, <<>>, [o \in Objs |-> 1])}

ExportInit ==
    /\ frame_duration \in 1..MaxFrameDuration
    /\ mobjects \in {<<>>, <<1>>}
    /\ frames \in SeqsUpTo(ExportFrames, MaxExportFrames)
    /\ num_animations = 0
    /\ image = BlankFrame
    /\ appearance = [o \in Objs |-> 1]
    /\ calls = 0
    /\ op = "init"
    /\ args = NoArgs
    /\ pre = [mobjects |-> <<>>, frames |-> <<>>,
              image |-> BlankFrame, appearance |-> [o \in Objs |-> 1]]
    /\ trace = <<>>
    /\ raised = ""
    /\ export \in {[NoExport EXCEPT !.tps = t] : t \in 1..MaxTicksPerSecond}

Writer == WriteFrame \/ CloseStdin \/ Wait
Ffmpeg == FfmpegRead \/ FfmpegWrite \/ FfmpegExit
Imagemagick == MagickRead \/ MagickExit

ExportNext ==
    \/ WriteToMovie
    \/ WriteToGif
    \/ WriteFrame
    \/ CloseStdin
    \/ Wait
    \/ FfmpegRead
    \/ FfmpegWrite
    \/ FfmpegExit
    \/ MagickRead
    \/ MagickExit

ExportSpec == ExportInit /\ [][ExportNext]_vars

\* The scene's thread and the two encoder processes each keep running while
\* they have a step to take.
FairExportSpec ==
    /\ ExportInit
    /\ [][ExportNext]_vars
    /\ WF_vars(Writer)
    /\ WF_vars(Ffmpeg)
    /\ WF_vars(Imagemagick)

\* =================================================================== claims
\* What the last call did, read back from its trace.
PlayedWithAnimations == op = "play" /\ Len(args.anims) > 0
RangeCalled == op = "play_over_time_range"
Positions(kind) == {i \in 1..Len(trace) : trace[i].ev = kind}
EventsOf(kind) == LET Is(e) == e.ev = kind IN SelectSeq(trace, Is)
Samples(j) == LET Is(e) == e.ev = "update" /\ e.anim = j IN SelectSeq(trace, Is)
GridAligned(t) == t % frame_duration = 0

\* The run time the animations of the last play call share.
SharedRunTime == IF args.kw # <<>> THEN args.kw[1] ELSE args.anims[1].run_time
\* The values t of {0, D, 2D, ...} with t < R.
GridTimes(R, D) == {t \in 0..(R - 1) : t % D = 0}

\* C1: Frame count law.  A play call with at least one animation, shared run
\* time R >= 0 and step D > 0 appends as many frames as there are t in
\* {0, D, 2D, ...} with t < R, which is ceil(R/D) and zero for R = 0; every
\* animation is sampled once per frame, at the progress values t/R in
\* increasing order, each in [0, 1), the first one 0.
FrameCountLaw ==
    PlayedWithAnimations =>
        LET R == SharedRunTime
            D == frame_duration
            count == Cardinality(GridTimes(R, D))
        IN  /\ Len(frames) = Len(pre.frames) + count
            /\ (count - 1) * D < R \/ R = 0
            /\ R <= count * D
            /\ R = 0 => count = 0
            /\ Cardinality(Positions("append")) = count
            /\ \A j \in 1..Len(args.anims) :
                LET smp == Samples(j)
                IN  /\ Len(smp) = count
                    /\ \A i \in 1..Len(smp) :
                        /\ smp[i].den = R
                        /\ smp[i].num \in GridTimes(R, D)
                        /\ 0 <= smp[i].num /\ smp[i].num < smp[i].den
                    /\ \A i \in 1..Len(smp), k \in 1..Len(smp) :
                        i < k => smp[i].num * smp[k].den < smp[k].num * smp[i].den
                    /\ smp # <<>> => smp[1].num = 0

\* A play call whose run time is no multiple of the step: the last, partial
\* step is sampled too.
FrameCountWitness ==
    /\ PlayedWithAnimations
    /\ SharedRunTime % frame_duration # 0
    /\ Len(frames) > Len(pre.frames)
    /\ Len(Samples(1)) = Len(frames) - Len(pre.frames)

\* C2: Range-overwrite preserves outside content.  For a buffer of n frames
\* and grid-aligned 0 <= t0 <= t1 <= n*D, play_over_time_range(t0, t1, ...)
\* leaves the buffer n frames long and every frame whose index is outside
\* [t0/D, t1/D) as it was before the call.
RangeOverwritePreservesOutside ==
    ( /\ RangeCalled
      /\ GridAligned(args.t0) /\ GridAligned(args.t1)
      /\ 0 <= args.t0 /\ args.t0 <= args.t1
      /\ args.t1 <= Len(pre.frames) * frame_duration )
    => /\ Len(frames) = Len(pre.frames)
       /\ raised = ""
       /\ \A i \in 1..Len(pre.frames) :
            (i - 1 < args.t0 \div frame_duration \/ i - 1 >= args.t1 \div frame_duration)
                => frames[i] = pre.frames[i]

\* A window strictly inside the buffer was rewritten: frames before and after
\* it exist, and a frame inside it changed.
RangeOverwriteWitness ==
    /\ RangeCalled
    /\ GridAligned(args.t0) /\ GridAligned(args.t1)
    /\ 0 < args.t0 /\ args.t0 < args.t1
    /\ args.t1 < Len(pre.frames) * frame_duration
    /\ Len(frames) = Len(pre.frames)
    /\ frames[args.t0 \div frame_duration + 1] # pre.frames[args.t0 \div frame_duration + 1]

\* C3: Extension sufficiency.  Whatever t0, t1 and the starting buffer, every
\* index read and written while stepping over the resolved window is below
\* the buffer length, so the call never indexes outside the buffer.
ExtensionSufficiency ==
    RangeCalled =>
        /\ raised # "IndexError"
        /\ \A i \in Positions("read") : trace[i].idx < Len(frames)

\* C4: No-duplicates invariant.  After any sequence of add, remove,
\* bring_to_front, bring_to_back, clear and play calls, self.mobjects holds
\* no mobject twice.
NoDuplicates ==
    \A i \in 1..Len(mobjects), k \in 1..Len(mobjects) :
        i # k => mobjects[i] # mobjects[k]

\* C5: add semantics.  For drawable arguments, add(o1..ok) yields the
\* previously present mobjects that are not among the arguments, in their
\* previous order, followed by o1..ok; re-adding one mobject that is present
\* puts it on top and leaves the number of mobjects unchanged.
AddSemantics ==
    (op \in {"add", "bring_to_front"} /\ all_elements_are_instances(args.objs)) =>
        LET kept == {i \in 1..Len(pre.mobjects) :
                        \A k \in 1..Len(args.objs) : pre.mobjects[i] # args.objs[k]}
            nkept == Cardinality(kept)
        IN  /\ raised = ""
            /\ Len(mobjects) = nkept + Len(args.objs)
            /\ \A i \in 1..Len(args.objs) : mobjects[nkept + i] = args.objs[i]
            /\ \A i \in kept :
                mobjects[Cardinality({k \in kept : k <= i})] = pre.mobjects[i]
            /\ (Len(args.objs) = 1 /\ InSeq(args.objs[1], pre.mobjects)) =>
                /\ mobjects[Len(mobjects)] = args.objs[1]
                /\ Len(mobjects) = Len(pre.mobjects)

\* C6: Empty-animation no-op.  play() with no animations leaves self.frames
\* and self.mobjects unchanged, produces no frame, reports a warning and
\* returns normally: no exception reaches the caller.
EmptyPlayNoOp ==
    (op = "play" /\ Len(args.anims) = 0) =>
        /\ frames = pre.frames
        /\ mobjects = pre.mobjects
        /\ Positions("append") = {}
        /\ raised = ""

\* The family of a mobject as a set: the mobject and all below it.
RECURSIVE Descendants(_)
Descendants(o) ==
    {o} \cup UNION {Descendants(Submobjects(o)[i]) : i \in 1..Len(Submobjects(o))}
\* The moving set of the last play call.
MovingSet == UNION {Descendants(args.anims[j].mobject) : j \in 1..Len(args.anims)}

\* C7: Static-render-once.  A play call rasterizes the static set once, on a
\* reset camera and before the first step, whatever the number of steps;
\* every step seeds the camera with that same static image and captures the
\* moving set only.
StaticRenderOnce ==
    PlayedWithAnimations =>
        LET static_image == PaintAll(BlankFrame, trace[2].objs, pre.appearance)
        IN  /\ Len(trace) >= 2
            /\ trace[1].ev = "reset"
            /\ trace[2].ev = "capture"
            /\ Range(trace[2].objs) \cap MovingSet = {}
            /\ Positions("reset") = {1}
            /\ Cardinality(Positions("capture")) = 1 + Len(frames) - Len(pre.frames)
            /\ \A i \in Positions("update") : i > 2
            /\ \A i \in Positions("set_image") : trace[i].img = static_image
            /\ \A i \in Positions("capture") :
                i > 2 => /\ trace[i - 1].ev = "set_image"
                         /\ Range(trace[i].objs) = MovingSet

\* A play call of two steps or more over a static image that is not blank.
StaticRenderOnceWitness ==
    /\ PlayedWithAnimations
    /\ Len(frames) >= Len(pre.frames) + 2
    /\ \E i \in Positions("set_image") : trace[i].img # BlankFrame

\* C8: Static/moving partition.  In a play call the static set is the family
\* of everything in self.mobjects (the bundle of the mobjects, targets
\* included, and all below it) minus the families of the targets; the static
\* and the moving set are disjoint and the static image shows no animated
\* mobject nor a descendant of one.
StaticMovingPartition ==
    PlayedWithAnimations =>
        LET everything ==
                {Bundle} \cup UNION {Descendants(mobjects[i]) : i \in 1..Len(mobjects)}
            static == Range(trace[2].objs)
        IN  /\ trace[2].ev = "capture"
            /\ \A j \in 1..Len(args.anims) : InSeq(args.anims[j].mobject, mobjects)
            /\ static = everything \ MovingSet
            /\ static \cap MovingSet = {}
            /\ \A i \in Positions("capture") :
                i > 2 => Range(trace[i].objs) \cap static = {}
            /\ \A i \in Positions("set_image") :
                /\ \A o \in MovingSet : trace[i].img[o] = 0
                /\ trace[i].img[0] \notin MovingSet

\* The composite 1 is animated while 2 stays static: its submobject 3 moves
\* with it.
StaticMovingPartitionWitness ==
    /\ PlayedWithAnimations
    /\ MovingSet = {1, 3}
    /\ InSeq(2, trace[2].objs)
    /\ Len(frames) > Len(pre.frames)

\* C9: Cleanup exactly once.  In a play call with animations and in every
\* play_over_time_range call, clean_up is called once on each animation, and
\* after the last update of the call.
CleanupExactlyOnce ==
    (PlayedWithAnimations \/ RangeCalled) =>
        \A j \in 1..Len(args.anims) :
            /\ Cardinality({i \in Positions("clean_up") : trace[i].anim = j}) = 1
            /\ \A i \in Positions("clean_up"), k \in Positions("update") : k < i

\* The scene as it was before the last call.
PreScene ==
    [mobjects |-> pre.mobjects, frames |-> pre.frames, num_animations |-> num_animations,
     image |-> pre.image, appearance |-> pre.appearance, trace |-> <<>>, raised |-> ""]
\* The indices a call wrote, each with the progress of the update before it.
Rewrites(tr) ==
    LET W == {i \in 1..Len(tr) : tr[i].ev = "write"}
        U == {k \in 1..Len(tr) : tr[k].ev = "update"}
    IN  {<<tr[p[1]].idx, tr[p[2]].num, tr[p[2]].den>> :
            p \in {q \in W \X U :
                    q[2] < q[1] /\ \A k \in U : k < q[1] => k <= q[2]}}
WrittenIndices(tr) == {tr[i].idx : i \in {i \in 1..Len(tr) : tr[i].ev = "write"}}

\* C10: Negative-index wraparound.  On a buffer of duration T = n*D and for
\* grid-aligned a, b with 0 < a, b <= T, play_over_time_range(-a, -b, anims)
\* rewrites the same frame indices at the same progress values, and leaves
\* the same frames, as play_over_time_range(T - a, T - b, anims) does from
\* the same scene.
NegativeWraparound ==
    LET T == Len(pre.frames) * frame_duration
    IN  ( /\ RangeCalled
          /\ args.t0 < 0 /\ args.t1 < 0
          /\ GridAligned(args.t0) /\ GridAligned(args.t1)
          /\ -args.t0 <= T /\ -args.t1 <= T )
        => LET other == play_over_time_range(PreScene, T + args.t0, T + args.t1,
                                             args.anims, frame_duration)
           IN  /\ WrittenIndices(trace) = WrittenIndices(other.trace)
               /\ Rewrites(trace) = Rewrites(other.trace)
               /\ WrittenIndices(trace) =
                    {i \in 0..(Len(pre.frames) - 1) :
                        /\ (T + Min(args.t0, args.t1)) \div frame_duration <= i
                        /\ i < (T + Max(args.t0, args.t1)) \div frame_duration}
               /\ frames = other.frames
               /\ raised = other.raised

\* Negative t0 # t1, one of them -T (which wraps to 0), and frames rewritten.
NegativeWraparoundWitness ==
    /\ RangeCalled
    /\ args.t0 < 0 /\ args.t1 < 0 /\ args.t0 # args.t1
    /\ GridAligned(args.t0) /\ GridAligned(args.t1)
    /\ -Min(args.t0, args.t1) = Len(pre.frames) * frame_duration
    /\ Len(args.anims) > 0
    /\ Positions("write") # {}
    /\ frames # pre.frames

\* C11: All-or-nothing bookkeeping errors.  add, remove, bring_to_front and
\* bring_to_back called with an argument that is not a Mobject, alone or
\* among Mobjects, raise to the caller and leave self.mobjects as it was,
\* contents and order.
BookkeepingAllOrNothing ==
    ( /\ op \in {"add", "remove", "bring_to_front", "bring_to_back"}
      /\ \E i \in 1..Len(args.objs) : args.objs[i] \notin Objs )
    => /\ raised = "Exception"
       /\ mobjects = pre.mobjects
       /\ frames = pre.frames

\* A call that mixes a Mobject already in the scene with a non-Mobject.
BookkeepingAllOrNothingWitness ==
    /\ op \in {"add", "remove"}
    /\ Len(args.objs) = 2
    /\ \E i \in 1..2 : args.objs[i] \notin Objs
    /\ \E i \in 1..2 : InSeq(args.objs[i], pre.mobjects)
    /\ raised = "Exception"

\* C15: Repeat law.  repeat_frames(n), n >= 0, on a buffer of k frames yields
\* n*k frames, frame i being frame (i mod k) of the original; n = 1 changes
\* nothing and n = 0 empties the buffer.
RepeatLaw ==
    op = "repeat_frames" =>
        LET k == Len(pre.frames)
        IN  /\ Len(frames) = args.n * k
            /\ \A i \in 0..(Len(frames) - 1) : frames[i + 1] = pre.frames[(i % k) + 1]
            /\ args.n = 1 => frames = pre.frames
            /\ args.n = 0 => frames = <<>>
            /\ mobjects = pre.mobjects

\* Two copies of a buffer of two different frames or more.
RepeatLawWitness ==
    /\ op = "repeat_frames"
    /\ args.n >= 2
    /\ Len(pre.frames) >= 2
    /\ pre.frames[1] # pre.frames[2]
    /\ Len(frames) = args.n * Len(pre.frames)

\* C16: Inversion round trip.  invert_colors replaces the frame at every
\* index by its negative, 255 - value per sample with all values in 0..255,
\* so a second invert_colors restores every frame; equal (aliased) frames at
\* several indices are each negated once.
InversionRoundTrip ==
    op = "invert_colors" =>
        /\ Len(frames) = Len(pre.frames)
        /\ \A i \in 1..Len(frames) : \A p \in Pixels :
            /\ pre.frames[i][p] \in 0..255
            /\ frames[i][p] \in 0..255
            /\ frames[i][p] = 255 - pre.frames[i][p]
        /\ invert_colors(Scene).frames = pre.frames

\* A buffer whose first two frames are one frame held twice (by dither): both
\* come out negated.
InversionRoundTripWitness ==
    /\ op = "invert_colors"
    /\ Len(pre.frames) >= 2
    /\ pre.frames[1] = pre.frames[2]
    /\ frames[1] = frames[2]
    /\ frames[1][0] = 255 - pre.frames[1][0]
    /\ frames # pre.frames

\* What a mobject list looks like rasterized on a reset camera: every member
\* of a family shows in its own pixel.
FreshRaster(ms, app) ==
    LET shown == UNION {Descendants(ms[i]) : i \in 1..Len(ms)}
    IN  [p \in Pixels |->
            IF p \in shown THEN app[p]
            ELSE IF p = 0 /\ ms # <<>>
                 THEN LET fam == extract_mobject_family_members(ms) IN fam[Len(fam)]
                 ELSE 0]

\* C17: Dither law.  dither(duration), duration >= 0, appends
\* floor(duration / frame_duration) frames, each the fresh rasterization of
\* all of self.mobjects (not the last stored frame), and leaves the frames
\* stored before and self.mobjects unchanged.
DitherLaw ==
    op = "dither" =>
        LET n == args.n \div frame_duration
            k == Len(pre.frames)
        IN  /\ n * frame_duration <= args.n /\ args.n < (n + 1) * frame_duration
            /\ Len(frames) = k + n
            /\ \A i \in 1..k : frames[i] = pre.frames[i]
            /\ \A i \in (k + 1)..(k + n) :
                frames[i] = FreshRaster(pre.mobjects, pre.appearance)
            /\ mobjects = pre.mobjects
            /\ Positions("reset") = {1}

\* A duration that is no multiple of frame_duration, on a buffer whose last
\* frame is not what the scene looks like now.
DitherLawWitness ==
    /\ op = "dither"
    /\ args.n % frame_duration # 0
    /\ Len(frames) > Len(pre.frames)
    /\ pre.frames # <<>>
    /\ pre.frames[Len(pre.frames)] # frames[Len(frames)]

\* C19: Run-time alignment.  play sets every animation to one run time R, the
\* run_time keyword if given and else the declared run_time of the first
\* animation; at every step all animations are updated with the same progress
\* t/R, whatever run times they were declared with.
RunTimeAlignment ==
    PlayedWithAnimations =>
        LET R == IF args.kw # <<>> THEN args.kw[1] ELSE args.anims[1].run_time
        IN  \A j \in 1..Len(args.anims) :
                /\ Len(Samples(j)) = Len(Samples(1))
                /\ \A i \in 1..Len(Samples(j)) :
                    /\ Samples(j)[i].den = R
                    /\ Samples(j)[i].num = Samples(1)[i].num
                    /\ Samples(j)[i].num = (i - 1) * frame_duration

\* Two animations declared with different run times, played without the
\* keyword.
RunTimeAlignmentWitness ==
    /\ PlayedWithAnimations
    /\ args.kw = <<>>
    /\ Len(args.anims) = 2
    /\ args.anims[1].run_time # args.anims[2].run_time
    /\ Samples(2) # <<>>

\* C20: Flattening disabled on every rasterization of play.  Every capture
\* that play asks of the camera, the static pass and each pass over the
\* moving set, is made with include_submobjects = False.
FlatteningDisabledEverywhere ==
    PlayedWithAnimations =>
        \A i \in Positions("capture") : trace[i].kw = <<FALSE>>

ExportCalled == op \in {"write_to_movie", "write_to_gif"}
Launched == export.ffmpeg # "none"

\* C12: for a non-empty buffer, a call of write_to_movie or write_to_gif puts
\* the bytes of every frame exactly once, in buffer order, into the stdin of
\* ffmpeg (what ffmpeg has read followed by what is still in the pipe is
\* always the stream of the frames written so far); the stdin is closed only
\* after the last frame is in, the writer waits only after the close, and
\* when the call is over ffmpeg has received the whole buffer.
ExportOrderingProtocol ==
    (ExportCalled /\ frames # <<>>) =>
        LET sent == export.ffmpeg_in \o export.pipe1
            whole == ByteStream(frames)
        IN  /\ Len(sent) <= Len(whole)
            /\ sent = SubSeq(whole, 1, Len(sent))
            /\ Len(sent) = (export.next - 1) * FrameChunks + (export.part - 1)
            /\ (export.pc # "writing") => ~export.stdin_open
            /\ ~export.stdin_open => sent = whole
            /\ export.pc = "done" =>
                    /\ export.ffmpeg_in = whole
                    /\ LastProcess = "exited"

FfmpegCanStep ==
    /\ export.ffmpeg = "running"
    /\ \/ export.pipe1 # <<>> /\ ~FfmpegHolds
       \/ FfmpegHolds /\ ~PipeFull(export.pipe2)
       \/ export.pipe1 = <<>> /\ ~export.stdin_open /\ ~FfmpegHolds
MagickCanStep ==
    /\ export.imagemagick = "running"
    /\ \/ export.pipe2 # <<>>
       \/ export.pipe2 = <<>> /\ export.ffmpeg = "exited"
WriterBlocked == FramesLeft /\ PipeFull(export.pipe1)
Delivered ==
    /\ export.pc = "done"
    /\ raised = ""
    /\ LastProcess = "exited"
    /\ export.pipe1 = <<>> /\ export.pipe2 = <<>>
    /\ export.ffmpeg_in = ByteStream(frames)
    /\ export.kind = "gif" => export.imagemagick_in = frames

\* C13: with pipes of bounded capacity, blocking writes and fairly scheduled
\* encoder processes, an export that has launched its encoder processes
\* always runs to completion (the call returns, every process has exited
\* and has received the whole buffer), for the movie and for the two-process
\* gif chain; and in no reachable state is the writer blocked on a full pipe
\* while no encoder process can take a step.
ExportDeadlockFree ==
    /\ [](~(WriterBlocked /\ ~FfmpegCanStep /\ ~MagickCanStep))
    /\ (Launched ~> Delivered)

\* The writer waits for room in pipe1 while ffmpeg waits for room in pipe2:
\* the whole chain rests on imagemagick.
ExportDeadlockFreeWitness ==
    /\ export.kind = "gif"
    /\ WriterBlocked
    /\ FfmpegHolds
    /\ PipeFull(export.pipe2)
    /\ ~FfmpegCanStep
    /\ MagickCanStep

\* C14: with an empty frame buffer, write_to_movie and write_to_gif launch no
\* encoder process and write nothing to a pipe; they render the scene's
\* current mobjects on a reset camera, show that one frame and save it as a
\* still image, and return without an exception.
EmptyTimelineExport ==
    (ExportCalled /\ pre.frames = <<>>) =>
        LET still == FreshRaster(pre.mobjects, pre.appearance)
        IN  /\ export.pc = "done"
            /\ raised = ""
            /\ export.ffmpeg = "none" /\ export.imagemagick = "none"
            /\ export.pipe1 = <<>> /\ export.pipe2 = <<>>
            /\ export.ffmpeg_in = <<>> /\ export.imagemagick_in = <<>>
            /\ trace = <<EvReset, EvCapture(pre.mobjects, <<>>),
                         EvShow(still), EvSave(still)>>
            /\ frames = <<>>
            /\ mobjects = pre.mobjects

EmptyTimelineExportWitness ==
    /\ ExportCalled
    /\ pre.frames = <<>>
    /\ pre.mobjects # <<>>
    /\ pre.image # FreshRaster(pre.mobjects, pre.appearance)
    /\ \E i \in 1..Len(trace) :
            trace[i].ev = "save" /\ trace[i].img # BlankFrame

\* round(1/frame_duration) for frame_duration = fd/tps seconds.
RoundedRate(fd, tps) == (2 * tps + fd) \div (2 * fd)

\* C18: the frame rate that write_to_movie and write_to_gif hand to the
\* encoder is round(1/frame_duration), for every frame_duration > 0.
ExportFrameRateRounded ==
    (ExportCalled /\ Launched) =>
        export.fps = RoundedRate(frame_duration, export.tps)

====
